---- MODULE Spec2Model ----
(***************************************************************************)
(* A model of skanehira/http_client.rs: Request::build (request.rs), the   *)
(* header and query-parameter collections (header.rs, params.rs) and       *)
(* HttpClient::execute_request / read_response (client.rs).                *)
(*                                                                         *)
(* A byte is a one-character string; a byte string (Vec<u8>, String) is a  *)
(* sequence of bytes.  Option<T> is a sequence of length 0 (None) or 1     *)
(* (Some).  A BTreeMap<String, String> is the sequence of its <<key,       *)
(* value>> entries in the order an iteration visits them.                  *)
(***************************************************************************)
EXTENDS Integers, Sequences, FiniteSets, TLC

VARIABLES
    req,            \* the Request: url, base_url, method, header, params, body
    hsrc,           \* the pairs req.header was collected from (FromIterator input)
    psrc,           \* the pairs req.params was collected from
    built,          \* Option: the bytes the last Request::build call returned
    pc,             \* position of the caller / of read_response
    sent,           \* what the peer sends: status, header lines, body bytes
    conn_in,        \* the bytes the transport delivers before end-of-input
    arrivals,       \* the positions of conn_in at which a read of the transport returns
    conn_out,       \* the bytes written to the transport
    rpos,           \* number of bytes of conn_in the reader has consumed
    taken,          \* number of bytes of conn_in taken from the transport
    status,         \* read_response: local `status`
    header,         \* read_response: local `header`
    body,           \* read_response: local `body`
    content_length, \* read_response: local `content_length`
    is_chunked,     \* read_response: local `is_chunked`
    body_reads,     \* number of read calls made on the stream after the header block
    result          \* the outcome of execute_request: running, Ok(resp), Err(e), panic

vars == <<req, hsrc, psrc, built, pc, sent, conn_in, arrivals, conn_out, rpos,
          taken, status, header, body, content_length, is_chunked, body_reads,
          result>>

----------------------------------------------------------------------------
(* Bytes and strings *)

None == <<>>
Some(x) == <<x>>
IsSome(o) == Len(o) = 1
IsNone(o) == Len(o) = 0
Unwrap(o) == o[1]

CRLF == <<"\r", "\n">>

\* The bytes the model uses, in ascending byte value (u8 / char order).
Ascii == <<"\t", "\n", "\r", " ", "&", "+", "-", ".", "/",
           "0", "1", "2", "3", "4", "5", "6", "7", "8", "9", ":", ";", "=", "?",
           "A", "B", "C", "D", "E", "F", "G", "H", "I", "J", "K", "L", "M",
           "N", "O", "P", "Q", "R", "S", "T", "U", "V", "W", "X", "Y", "Z",
           "a", "b", "c", "d", "e", "f", "g", "h", "i", "j", "k", "l", "m",
           "n", "o", "p", "q", "r", "s", "t", "u", "v", "w", "x", "y", "z">>

Ord(c) == CHOOSE i \in DOMAIN Ascii : Ascii[i] = c

UpperCase == <<"A", "B", "C", "D", "E", "F", "G", "H", "I", "J", "K", "L", "M",
               "N", "O", "P", "Q", "R", "S", "T", "U", "V", "W", "X", "Y", "Z">>
LowerCase == <<"a", "b", "c", "d", "e", "f", "g", "h", "i", "j", "k", "l", "m",
               "n", "o", "p", "q", "r", "s", "t", "u", "v", "w", "x", "y", "z">>

\* char::to_lowercase on one byte
LowerByte(c) ==
    IF \E i \in DOMAIN UpperCase : UpperCase[i] = c
    THEN LowerCase[CHOOSE i \in DOMAIN UpperCase : UpperCase[i] = c]
    ELSE c

\* str::to_lowercase
to_lowercase(s) == [i \in DOMAIN s |-> LowerByte(s[i])]

\* char::is_whitespace, on the bytes of the model
IsWhitespace(c) == c \in {" ", "\t", "\n", "\r"}

\* Ord for String: lexicographic on bytes
RECURSIVE StrLess(_, _)
StrLess(a, b) ==
    IF Len(b) = 0 THEN FALSE
    ELSE IF Len(a) = 0 THEN TRUE
    ELSE IF a[1] # b[1] THEN Ord(a[1]) < Ord(b[1])
    ELSE StrLess(Tail(a), Tail(b))

\* [T]::join / concatenation of a sequence of strings with a separator
RECURSIVE Join(_, _)
Join(parts, sep) ==
    IF Len(parts) = 0 THEN <<>>
    ELSE IF Len(parts) = 1 THEN parts[1]
    ELSE parts[1] \o sep \o Join(Tail(parts), sep)

StartsWithAt(s, i, pat) ==
    /\ i + Len(pat) - 1 <= Len(s)
    /\ \A j \in 1..Len(pat) : s[i + j - 1] = pat[j]

\* str::find: the index of the first occurrence of pat in s at or after i, 0
\* when there is none
RECURSIVE FindFrom(_, _, _)
FindFrom(s, i, pat) ==
    IF i + Len(pat) - 1 > Len(s) THEN 0
    ELSE IF StartsWithAt(s, i, pat) THEN i
    ELSE FindFrom(s, i + 1, pat)

Find(s, pat) == FindFrom(s, 1, pat)

\* The pieces of s at or after start between the non-overlapping occurrences
\* of pat
RECURSIVE SplitFrom(_, _, _)
SplitFrom(s, start, pat) ==
    IF FindFrom(s, start, pat) = 0 THEN <<SubSeq(s, start, Len(s))>>
    ELSE <<SubSeq(s, start, FindFrom(s, start, pat) - 1)>>
         \o SplitFrom(s, FindFrom(s, start, pat) + Len(pat), pat)

\* str::split(pat): the pieces between the non-overlapping occurrences of pat
Split(s, pat) == SplitFrom(s, 1, pat)

\* str::trim: without the leading and trailing whitespace
RECURSIVE TrimStart(_)
TrimStart(s) ==
    IF Len(s) > 0 /\ IsWhitespace(s[1]) THEN TrimStart(Tail(s)) ELSE s

RECURSIVE TrimEnd(_)
TrimEnd(s) ==
    IF Len(s) > 0 /\ IsWhitespace(s[Len(s)])
    THEN TrimEnd(SubSeq(s, 1, Len(s) - 1)) ELSE s

trim(s) == TrimEnd(TrimStart(s))

\* The index of the last byte of the run of non-whitespace bytes of s that
\* starts at i
RECURSIVE TokenEnd(_, _)
TokenEnd(s, i) ==
    IF i > Len(s) \/ IsWhitespace(s[i]) THEN i - 1 ELSE TokenEnd(s, i + 1)

\* The maximal runs of non-whitespace bytes of s at or after i
RECURSIVE TokensFrom(_, _)
TokensFrom(s, i) ==
    IF i > Len(s) THEN <<>>
    ELSE IF IsWhitespace(s[i]) THEN TokensFrom(s, i + 1)
    ELSE <<SubSeq(s, i, TokenEnd(s, i))>> \o TokensFrom(s, TokenEnd(s, i) + 1)

\* str::split_whitespace: the maximal runs of non-whitespace bytes
split_whitespace(s) == TokensFrom(s, 1)

----------------------------------------------------------------------------
(* Numbers *)

HexDigits == <<"0", "1", "2", "3", "4", "5", "6", "7", "8", "9",
               "a", "b", "c", "d", "e", "f">>

\* char::to_digit(radix): the value of a digit, -1 when c is no digit of the radix
DigitValue(c, radix) ==
    LET l == LowerByte(c) IN
    IF \E i \in 1..radix : HexDigits[i] = l
    THEN (CHOOSE i \in 1..radix : HexDigits[i] = l) - 1
    ELSE -1

RECURSIVE DigitsValue(_, _, _)
DigitsValue(s, radix, acc) ==
    IF Len(s) = 0 THEN acc
    ELSE DigitsValue(Tail(s), radix, acc * radix + DigitValue(s[1], radix))

AllDigits(s, radix) ==
    Len(s) > 0 /\ \A i \in 1..Len(s) : DigitValue(s[i], radix) >= 0

\* A parse that takes the leading decimal digits and ignores the rest
ParseUnsigned_Lenient(s) ==
    LET n == CHOOSE k \in 0..Len(s) :
                 /\ \A i \in 1..k : DigitValue(s[i], 10) >= 0
                 /\ k = Len(s) \/ DigitValue(s[k + 1], 10) < 0
    IN Some(DigitsValue(SubSeq(s, 1, n), 10, 0))

\* str::parse::<u32> / ::<usize>: Some(n), or None for a ParseIntError: an
\* optional "+", then one or more decimal digits.  Every numeral of the model
\* has fewer than 10 digits, so its value is below 2^32 and no numeral overflows.
ParseUnsigned(s) ==
    LET d == IF Len(s) > 0 /\ s[1] = "+" THEN Tail(s) ELSE s IN
    IF AllDigits(d, 10) /\ Len(d) < 10
    THEN Some(DigitsValue(d, 10, 0))
    ELSE None

\* i64::from_str_radix(s, 16): an optional sign, then one or more hex digits
\* (fewer than 8 in the model, so the value never overflows).
ParseHexI64(s) ==
    LET neg == Len(s) > 0 /\ s[1] = "-"
        d == IF Len(s) > 0 /\ s[1] \in {"+", "-"} THEN Tail(s) ELSE s
    IN
    IF AllDigits(d, 16) /\ Len(d) < 8
    THEN Some(IF neg THEN 0 - DigitsValue(d, 16, 0) ELSE DigitsValue(d, 16, 0))
    ELSE None

\* usize::to_string
RECURSIVE to_string(_)
to_string(n) ==
    IF n < 10 THEN <<HexDigits[n + 1]>>
    ELSE to_string(n \div 10) \o <<HexDigits[(n % 10) + 1]>>

----------------------------------------------------------------------------
(* header.rs, params.rs: the collections *)

\* BTreeMap::insert: an existing key keeps its place and takes the new value,
\* a new key is placed after every smaller key.
BTreeInsert(m, key, value) ==
    IF \E i \in DOMAIN m : m[i][1] = key
    THEN [i \in DOMAIN m |-> IF m[i][1] = key THEN <<key, value>> ELSE m[i]]
    ELSE LET n == Cardinality({i \in DOMAIN m : StrLess(m[i][1], key)})
         IN SubSeq(m, 1, n) \o <<<<key, value>>>> \o SubSeq(m, n + 1, Len(m))

\* BTreeMap::get
BTreeGet(m, key) ==
    IF \E i \in DOMAIN m : m[i][1] = key
    THEN Some(m[CHOOSE i \in DOMAIN m : m[i][1] = key][2])
    ELSE None

\* BTreeMap::remove
RECURSIVE BTreeRemove(_, _)
BTreeRemove(m, key) ==
    IF Len(m) = 0 THEN <<>>
    ELSE IF m[1][1] = key THEN BTreeRemove(Tail(m), key)
    ELSE <<m[1]>> \o BTreeRemove(Tail(m), key)

\* HttpHeader::new
HeaderNew == <<>>

\* A collection that keeps its entries in insertion order (a Vec of pairs)
HeaderAdd_InsertionOrder(h, key, value) ==
    IF \E i \in DOMAIN h : h[i][1] = key
    THEN [i \in DOMAIN h |-> IF h[i][1] = key THEN <<key, value>> ELSE h[i]]
    ELSE Append(h, <<key, value>>)

\* HttpHeader::add
HeaderAdd(h, key, value) == BTreeInsert(h, key, value)

\* HttpHeader::get
HeaderGet(h, key) == BTreeGet(h, key)

\* HttpHeader::remove
HeaderRemove(h, key) == BTreeRemove(h, key)

\* impl FromIterator for HttpHeader
RECURSIVE HeaderFromIter(_, _)
HeaderFromIter(p, pairs) ==
    IF Len(pairs) = 0 THEN p
    ELSE HeaderFromIter(HeaderAdd(p, pairs[1][1], pairs[1][2]), Tail(pairs))

\* impl Display for HttpHeader
HeaderDisplay(h) ==
    Join([i \in DOMAIN h |-> h[i][1] \o <<":", " ">> \o h[i][2]], CRLF)

\* HttpParams::new
ParamsNew == <<>>

\* HttpParams::add
ParamsAdd(p, key, value) == BTreeInsert(p, key, value)

\* impl FromIterator for HttpParams
RECURSIVE ParamsFromIter(_, _)
ParamsFromIter(p, pairs) ==
    IF Len(pairs) = 0 THEN p
    ELSE ParamsFromIter(ParamsAdd(p, pairs[1][1], pairs[1][2]), Tail(pairs))

\* impl Display for HttpParams
ParamsDisplay(p) ==
    Join([i \in DOMAIN p |-> p[i][1] \o <<"=">> \o p[i][2]], <<"&">>)

----------------------------------------------------------------------------
(* method.rs, request.rs *)

HttpMethod == {"Get", "Post", "Put", "Delete", "Patch", "Head", "Options"}

\* impl Display for HttpMethod
MethodDisplay(m) ==
    CASE m = "Get" -> <<"G", "E", "T">>
      [] m = "Post" -> <<"P", "O", "S", "T">>
      [] m = "Put" -> <<"P", "U", "T">>
      [] m = "Delete" -> <<"D", "E", "L", "E", "T", "E">>
      [] m = "Patch" -> <<"P", "A", "T", "C", "H">>
      [] m = "Head" -> <<"H", "E", "A", "D">>
      [] m = "Options" -> <<"O", "P", "T", "I", "O", "N", "S">>

\* Request::new: the url, and Default::default() for the other fields
RequestNew(url) ==
    [url |-> url, base_url |-> None, method |-> "Get",
     header |-> None, params |-> None, body |-> None]

\* Request::get / post / put / delete / patch / head / options: post, put and
\* patch take a payload, stored as its JSON text
RequestFor(m, url, json) ==
    IF m \in {"Post", "Put", "Patch"}
    THEN [RequestNew(url) EXCEPT !.method = m, !.body = Some(json)]
    ELSE [RequestNew(url) EXCEPT !.method = m]

\* The line terminator pushed before the body whether or not a body is set
AppendBody_AlwaysNewline(message, data) ==
    message \o CRLF \o (IF IsSome(data) THEN Unwrap(data) ELSE <<>>)

\* Request::build: `if let Some(data) = &self.body`
AppendBody(message, data) ==
    IF IsSome(data) THEN message \o CRLF \o Unwrap(data) ELSE message

\* Request::build
build(r) ==
    LET url == IF IsSome(r.params)
               THEN r.url \o <<"?">> \o ParamsDisplay(Unwrap(r.params))
               ELSE r.url
        base_url == IF IsSome(r.base_url)
                    THEN Unwrap(r.base_url)
                    ELSE <<"l", "o", "c", "a", "l", "h", "o", "s", "t">>
        first == <<MethodDisplay(r.method) \o <<" ">> \o url
                     \o <<" ", "H", "T", "T", "P", "/", "1", ".", "1">>,
                   <<"H", "o", "s", "t", ":", " ">> \o base_url>>
        pushed == IF IsSome(r.header)
                  THEN first \o <<HeaderDisplay(Unwrap(r.header))>>
                  ELSE first
        message == Join(pushed \o <<<<>>>>, CRLF)
        newline == CRLF
    IN AppendBody(message, r.body) \o newline

----------------------------------------------------------------------------
(* The inputs of the model *)

\* The longest sequence of pairs a collection is collected from.
MaxPairs == 2

SeqsUpTo(S, n) == UNION {[1..k -> S] : k \in 0..n}

Urls == {<<"/", "h", "e", "l", "l", "o">>}
BaseUrls == {<<"h", ".", "i", "o">>}
HeaderPairs ==
    {<<<<"b", "a", "r">>, <<"1">>>>, <<<<"b", "a", "r">>, <<"2">>>>,
     <<<<"F", "o", "o">>, <<"1">>>>}
ParamPairs ==
    {<<<<"n", "a", "m", "e">>, <<"x">>>>, <<<<"i", "m", "a", "g", "e">>, <<"y">>>>}
BodyValues == {<<>>, <<"h", "i">>}
JsonTrue == <<"t", "r", "u", "e">>

\* The state of the locals of read_response, and of the transport, before
\* execute_request is called.
ReaderIdle ==
    /\ sent = [status |-> 0, lines |-> <<>>, chunks |-> None, body |-> <<>>]
    /\ conn_in = <<>>
    /\ arrivals = {0}
    /\ conn_out = <<>>
    /\ rpos = 0
    /\ taken = 0
    /\ status = 0
    /\ header = HeaderNew
    /\ body = <<>>
    /\ content_length = 0
    /\ is_chunked = FALSE
    /\ body_reads = 0
    /\ result = [kind |-> "none", msg |-> "", resp |-> [status |-> 0, header |-> <<>>, body |-> <<>>]]

ReaderVars == <<sent, conn_in, arrivals, conn_out, rpos, taken, status, header,
                body, content_length, is_chunked, body_reads, result>>

----------------------------------------------------------------------------
(* BuildSpec: a caller configures a Request with the chained setters and *)
(* builds it *)

InitBuild ==
    /\ \E url \in Urls : req = RequestNew(url)
    /\ hsrc = <<>>
    /\ psrc = <<>>
    /\ built = None
    /\ pc = "new"
    /\ ReaderIdle

\* Request::method
SetMethod(p) ==
    /\ pc = "new"
    /\ req' = [req EXCEPT !.method = p]
    /\ UNCHANGED <<hsrc, psrc, built, pc, ReaderVars>>

\* Request::base_url
SetBaseUrl(p) ==
    /\ pc = "new"
    /\ req' = [req EXCEPT !.base_url = Some(p)]
    /\ UNCHANGED <<hsrc, psrc, built, pc, ReaderVars>>

\* Request::header, with a collection collected from `pairs`
SetHeader(pairs) ==
    /\ pc = "new"
    /\ req' = [req EXCEPT !.header = Some(HeaderFromIter(HeaderNew, pairs))]
    /\ hsrc' = pairs
    /\ UNCHANGED <<psrc, built, pc, ReaderVars>>

\* Request::params, with a collection collected from `pairs`
SetParams(pairs) ==
    /\ pc = "new"
    /\ req' = [req EXCEPT !.params = Some(ParamsFromIter(ParamsNew, pairs))]
    /\ psrc' = pairs
    /\ UNCHANGED <<hsrc, built, pc, ReaderVars>>

\* Request::body
SetBody(p) ==
    /\ pc = "new"
    /\ req' = [req EXCEPT !.body = Some(p)]
    /\ UNCHANGED <<hsrc, psrc, built, pc, ReaderVars>>

\* Request::to_string / Request::build called on the configured request
Build ==
    /\ pc = "new"
    /\ built' = Some(build(req))
    /\ pc' = "built"
    /\ UNCHANGED <<req, hsrc, psrc, ReaderVars>>

NextBuild ==
    \/ \E p \in HttpMethod : SetMethod(p)
    \/ \E p \in BaseUrls : SetBaseUrl(p)
    \/ \E pairs \in SeqsUpTo(HeaderPairs, MaxPairs) : SetHeader(pairs)
    \/ \E pairs \in SeqsUpTo(ParamPairs, MaxPairs) : SetParams(pairs)
    \/ \E p \in BodyValues : SetBody(p)
    \/ Build

BuildSpec == InitBuild /\ [][NextBuild]_vars

----------------------------------------------------------------------------
(* Request::build: C6 - C9, checked under BuildSpec *)

\* The key/value pairs a collection holds
PairSet(m) == {m[i] : i \in DOMAIN m}

\* The pairs of a set, one per key, in ascending key order
RECURSIVE InKeyOrder(_)
InKeyOrder(S) ==
    IF S = {} THEN <<>>
    ELSE LET least == CHOOSE e \in S : \A f \in S : f = e \/ StrLess(e[1], f[1])
         IN <<least>> \o InKeyOrder(S \ {least})

RECURSIVE Concat(_)
Concat(parts) == IF Len(parts) = 0 THEN <<>> ELSE parts[1] \o Concat(Tail(parts))

\* The wire format C6 states, written out for a request r
WireFormat(r) ==
    LET pairs == IF IsSome(r.params) THEN InKeyOrder(PairSet(Unwrap(r.params))) ELSE <<>>
        target == IF IsSome(r.params)
                  THEN r.url \o <<"?">>
                       \o Join([i \in DOMAIN pairs |-> pairs[i][1] \o <<"=">> \o pairs[i][2]],
                               <<"&">>)
                  ELSE r.url
        host == IF IsSome(r.base_url) THEN Unwrap(r.base_url)
                ELSE <<"l", "o", "c", "a", "l", "h", "o", "s", "t">>
        hs == IF IsSome(r.header) THEN InKeyOrder(PairSet(Unwrap(r.header))) ELSE <<>>
    IN MethodDisplay(r.method) \o <<" ">> \o target
         \o <<" ", "H", "T", "T", "P", "/", "1", ".", "1">> \o CRLF
         \o <<"H", "o", "s", "t", ":", " ">> \o host \o CRLF
         \o Concat([i \in DOMAIN hs |-> hs[i][1] \o <<":", " ">> \o hs[i][2] \o CRLF])
         \o CRLF
         \o (IF IsSome(r.body) THEN Unwrap(r.body) \o CRLF ELSE <<>>)

\* C6: the bytes build returns are exactly the request line, the Host line, one
\* line per header in key order, the blank line and, only when a body is set,
\* the body followed by one CRLF.
C6_BuildFormat == pc = "built" => Unwrap(built) = WireFormat(req)

\* C6 holds of every request whose header collection is absent or non-empty
C6_BuildFormatNonEmptyHeader ==
    (pc = "built" /\ req.header # Some(HeaderNew)) => Unwrap(built) = WireFormat(req)

GetHello == RequestNew(<<"/", "h", "e", "l", "l", "o">>)

\* C7 as stated: GET /hello with nothing else set builds to the request line,
\* the Host line and three line terminators.
C7_ThreeTerminators ==
    (pc = "built" /\ req = GetHello) =>
        Unwrap(built) = <<"G", "E", "T", " ", "/", "h", "e", "l", "l", "o", " ",
                          "H", "T", "T", "P", "/", "1", ".", "1", "\r", "\n",
                          "H", "o", "s", "t", ":", " ",
                          "l", "o", "c", "a", "l", "h", "o", "s", "t", "\r", "\n",
                          "\r", "\n", "\r", "\n">>

\* C7, amended: GET /hello with nothing else set builds to the request line and
\* the Host line followed by two line terminators (the one ending the Host line
\* and the blank line), and nothing after them.
C7_TwoTerminators ==
    (pc = "built" /\ req = GetHello) =>
        Unwrap(built) = <<"G", "E", "T", " ", "/", "h", "e", "l", "l", "o", " ",
                          "H", "T", "T", "P", "/", "1", ".", "1", "\r", "\n",
                          "H", "o", "s", "t", ":", " ",
                          "l", "o", "c", "a", "l", "h", "o", "s", "t", "\r", "\n",
                          "\r", "\n">>

C7_Witness == pc = "built" /\ req = GetHello

EndsWith(s, pat) == Len(s) >= Len(pat) /\ StartsWithAt(s, Len(s) - Len(pat) + 1, pat)

\* C8: in the bytes build returns there is an empty line, the first one (the
\* first CRLF CRLF) is immediately followed by the body when a body is set, and
\* the message ends with a line terminator.
C8_OneEmptyLine ==
    pc = "built" =>
        LET out == Unwrap(built)
            i == Find(out, CRLF \o CRLF)
        IN /\ i > 0
           /\ EndsWith(out, CRLF)
           /\ IsSome(req.body) => StartsWithAt(out, i + 4, Unwrap(req.body) \o CRLF)

\* The permutations of a sequence
Perms(s) ==
    {[i \in DOMAIN s |-> s[f[i]]] :
        f \in {g \in [DOMAIN s -> DOMAIN s] : \A i, j \in DOMAIN s : i # j => g[i] # g[j]}}

\* The header lines of a built message: the lines between the Host line and
\* the first empty line
HeaderLinesOf(out) ==
    LET lines == Split(out, CRLF)
        n == CHOOSE k \in 3..Len(lines) :
                /\ lines[k] = <<>>
                /\ \A j \in 3..(k - 1) : lines[j] # <<>>
    IN SubSeq(lines, 3, n - 1)

\* The query pairs of a built message: the pieces between the "&" of the part
\* of the request target after the "?"
QueryPairsOf(out) ==
    LET target == Split(Split(out, CRLF)[1], <<" ">>)[2]
        q == Find(target, <<"?">>)
    IN IF q = 0 \/ q = Len(target) THEN <<>>
       ELSE Split(SubSeq(target, q + 1, Len(target)), <<"&">>)

KeysAscend(items, sep) ==
    \A i \in 1..(Len(items) - 1) :
        StrLess(Split(items[i], sep)[1], Split(items[i + 1], sep)[1])

\* C9: a request whose header (query-parameter) pairs are inserted in another
\* order, and holds the same pairs, builds to the same bytes; and in the bytes
\* built the header lines and the query pairs are in ascending key order, one
\* per pair held.
C9_Deterministic ==
    pc = "built" =>
        /\ IsSome(req.header) =>
              \A p \in Perms(hsrc) :
                  LET h == HeaderFromIter(HeaderNew, p) IN
                  PairSet(h) = PairSet(Unwrap(req.header)) =>
                      build([req EXCEPT !.header = Some(h)]) = Unwrap(built)
        /\ IsSome(req.params) =>
              \A p \in Perms(psrc) :
                  LET q == ParamsFromIter(ParamsNew, p) IN
                  PairSet(q) = PairSet(Unwrap(req.params)) =>
                      build([req EXCEPT !.params = Some(q)]) = Unwrap(built)
        /\ KeysAscend(HeaderLinesOf(Unwrap(built)), <<":", " ">>)
        /\ KeysAscend(QueryPairsOf(Unwrap(built)), <<"=">>)
        /\ IsSome(req.header) =>
              Len(HeaderLinesOf(Unwrap(built))) = Cardinality(PairSet(Unwrap(req.header)))
        /\ IsSome(req.params) =>
              Len(QueryPairsOf(Unwrap(built))) = Cardinality(PairSet(Unwrap(req.params)))

\* Two insertion orders of two different keys, for the headers and for the
\* query parameters, have been built.
C9_Witness ==
    /\ pc = "built"
    /\ Len(hsrc) = 2 /\ hsrc[1][1] # hsrc[2][1] /\ StrLess(hsrc[2][1], hsrc[1][1])
    /\ Len(psrc) = 2 /\ psrc[1][1] # psrc[2][1] /\ StrLess(psrc[2][1], psrc[1][1])

----------------------------------------------------------------------------
(* client.rs: the peer's response and the transport *)

\* The most chunks in a chunked body and the most bytes in a body that is not
\* chunked.
MaxChunks == 2
MaxBody == 2

Statuses == {200, 204, 304}

RECURSIVE ToHex(_)
ToHex(n) ==
    IF n < 16 THEN <<HexDigits[n + 1]>>
    ELSE ToHex(n \div 16) \o <<HexDigits[(n % 16) + 1]>>

ContentLengthKey == <<"C", "o", "n", "t", "e", "n", "t", "-", "L", "e", "n", "g", "t", "h">>
TransferEncodingKey ==
    <<"T", "r", "a", "n", "s", "f", "e", "r", "-", "E", "n", "c", "o", "d", "i", "n", "g">>
Chunked == <<"c", "h", "u", "n", "k", "e", "d">>

Gzip == <<"g", "z", "i", "p">>

\* The header blocks a peer sends, each line a <<key, value>>: a content-length
\* line or none, a transfer-encoding line or none, another line or none, in
\* this order or in the opposite one
SentBlocks ==
    LET cls == {<<>>} \cup {<<<<ContentLengthKey, to_string(n)>>>> : n \in 0..(MaxBody + 1)}
        tes == {<<>>} \cup {<<<<TransferEncodingKey, v>>>> : v \in {Chunked, Gzip}}
        ets == {<<>>, <<<<<<"E", "T", "a", "g">>, <<"x">>>>>>}
    IN {c \o t \o e : c \in cls, t \in tes, e \in ets}
           \cup {e \o t \o c : c \in cls, t \in tes, e \in ets}

\* The payloads of the chunks of a chunked body
ChunkPayloads ==
    {<<"\n", "a">>, <<"b", "b", "b", "b", "b", "b", "b", "b", "b", "b", "b">>}

\* A chunk on the wire: the size in hex, CRLF, the payload, CRLF
ChunkFrame(payload) == ToHex(Len(payload)) \o CRLF \o payload \o CRLF

\* A chunked body on the wire: the chunks, then the zero-size chunk
ChunkedFrame(chunks) ==
    Concat([i \in DOMAIN chunks |-> ChunkFrame(chunks[i])]) \o <<"0">> \o CRLF \o CRLF

\* What follows the header block: a chunked body (chunks is Some) and the bytes
\* after it, or plain bytes
SentBodies ==
    {[chunks |-> Some(c), bytes |-> ChunkedFrame(c) \o t] :
        c \in SeqsUpTo(ChunkPayloads, MaxChunks), t \in {<<>>, <<"z">>}}
    \cup {[chunks |-> None, bytes |-> b] : b \in SeqsUpTo({"a", "\n"}, MaxBody)}

\* The responses a peer sends
SentMessages ==
    {[status |-> st, lines |-> ls, chunks |-> b.chunks, body |-> b.bytes] :
        st \in Statuses, ls \in SentBlocks, b \in SentBodies}

\* The status line and the header block on the wire
HeadOnWire(m) ==
    <<"H", "T", "T", "P", "/", "1", ".", "1", " ">> \o to_string(m.status)
        \o <<" ", "O", "K">> \o CRLF
        \o Concat([i \in DOMAIN m.lines |->
                      m.lines[i][1] \o <<":", " ">> \o m.lines[i][2] \o CRLF])
        \o CRLF

OnWire(m) == HeadOnWire(m) \o m.body

----------------------------------------------------------------------------
(* client.rs: HttpClient::execute_request and read_response *)
(*                                                                         *)
(* The transport delivers conn_in and then end-of-input.  Every byte of    *)
(* the model is ASCII, so String::from_utf8 never fails, and the transport *)
(* reports no I/O error other than end-of-input.  A panic (an unwrap of an *)
(* Err, an allocation of more than isize::MAX bytes) ends the call with    *)
(* result.kind = "panic".                                                  *)

NoResponse == [status |-> 0, header |-> <<>>, body |-> None]
Running == [kind |-> "none", msg |-> "", resp |-> NoResponse]
Ok(resp) == [kind |-> "ok", msg |-> "", resp |-> resp]
Err(msg) == [kind |-> "err", msg |-> msg, resp |-> NoResponse]
Panic(msg) == [kind |-> "panic", msg |-> msg, resp |-> NoResponse]

\* BufRead::read_until(b'\n'): the position after the next "\n" after pos, or
\* the end of the input when there is none
RECURSIVE LineEnd(_, _)
LineEnd(s, pos) ==
    IF pos >= Len(s) THEN Len(s)
    ELSE IF s[pos + 1] = "\n" THEN pos + 1
    ELSE LineEnd(s, pos + 1)

\* A read of the bytes up to the end of the line in place of a read of n bytes
ReadExact_Line(s, pos, n) ==
    IF pos + n <= Len(s) THEN Some(SubSeq(s, pos + 1, LineEnd(s, pos))) ELSE None

\* Read::read_exact for n bytes: Some(bytes), or None for UnexpectedEof
ReadExact(s, pos, n) ==
    IF pos + n <= Len(s) THEN Some(SubSeq(s, pos + 1, pos + n)) ELSE None

\* A match on 204 alone
NoBodyStatus_Only204(st) == st = 204

\* `204 | 304` of the match on status
NoBodyStatus(st) == st \in {204, 304}

\* A must_read_body that exempts DELETE as well
MustReadBody_NoDelete(method) == method \notin {"Head", "Options", "Delete"}

\* A must_read_body that exempts HEAD alone
MustReadBody_OnlyHead(method) == method # "Head"

\* must_read_body
MustReadBody(method) == method \notin {"Head", "Options"}

\* A read_response without the missing-framing check
MissingFraming_Never(must_read_body, tf, cl) == FALSE

\* the condition of the missing-framing bail
MissingFraming(must_read_body, tf, cl) == must_read_body /\ IsNone(tf) /\ IsNone(cl)

\* is_chunked
IsChunked(tf) == IF IsSome(tf) THEN Unwrap(tf) = Chunked ELSE FALSE

\* A chunk size parsed as a decimal number
ChunkSize_Decimal(line) == ParseUnsigned(trim(line))

\* chunk_size: the chunk-size line, trimmed, as a base-16 i64
ChunkSize(line) == ParseHexI64(trim(line))

InitRead ==
    /\ \E m \in HttpMethod, url \in Urls : req = RequestFor(m, url, JsonTrue)
    /\ hsrc = <<>>
    /\ psrc = <<>>
    /\ built = None
    /\ pc = "call"
    /\ sent \in SentMessages
    /\ conn_in = OnWire(sent)
    /\ arrivals = {Len(conn_in)}
    /\ conn_out = <<>>
    /\ rpos = 0
    /\ taken = 0
    /\ status = 0
    /\ header = HeaderNew
    /\ body = <<>>
    /\ content_length = 0
    /\ is_chunked = FALSE
    /\ body_reads = 0
    /\ result = Running

\* BufReader::fill_buf, as often as read_until or read_exact call it to get
\* the bytes up to position `need`: the number of bytes taken from the
\* transport then.  The BufReader reads the transport when its buffer is empty,
\* and a read returns at the next of `arrivals`: no stream of the model is
\* longer than the buffer (8 KiB), so a read takes all that has arrived.
Fill(t, need) ==
    IF t >= need THEN t
    ELSE CHOOSE e \in arrivals : e >= need /\ \A f \in arrivals : f >= need => e <= f

\* An execute_request that starts reading without writing the request
Execute_NoWrite ==
    /\ pc = "call"
    /\ built' = Some(build(req))
    /\ pc' = "status"
    /\ UNCHANGED <<req, hsrc, psrc, sent, conn_in, arrivals, conn_out, rpos,
                   taken, status, header, body, content_length, is_chunked,
                   body_reads, result>>

\* execute_request: build the request and write all of it, then read_response
Execute ==
    /\ pc = "call"
    /\ built' = Some(build(req))
    /\ conn_out' = conn_out \o build(req)
    /\ pc' = "status"
    /\ UNCHANGED <<req, hsrc, psrc, sent, conn_in, arrivals, rpos, taken,
                   status, header, body, content_length, is_chunked,
                   body_reads, result>>

\* An error path that stays in the loop instead of returning
Fail_Retry(r) ==
    /\ result' = result
    /\ pc' = pc

\* read_response returns r (`?`, bail!, Ok(resp)) or aborts with it (a panic)
Fail(r) ==
    /\ result' = r
    /\ pc' = "done"

\* read_response: the status line
ReadStatusLine ==
    /\ pc = "status"
    /\ \E end \in {LineEnd(conn_in, rpos)} :
       \E tokens \in {split_whitespace(SubSeq(conn_in, rpos + 1, end))} :
       \E parsed \in {IF Len(tokens) >= 2 THEN ParseUnsigned(tokens[2]) ELSE None} :
          /\ rpos' = end
          /\ IF Len(tokens) < 2
             THEN Fail(Err("cannot get status code")) /\ UNCHANGED status
             ELSE IF IsNone(parsed)
             THEN Fail(Err("ParseIntError")) /\ UNCHANGED status
             ELSE /\ status' = Unwrap(parsed)
                  /\ pc' = "headers"
                  /\ UNCHANGED result
    /\ taken' = Fill(taken, rpos')
    /\ UNCHANGED <<req, hsrc, psrc, built, sent, conn_in, arrivals, conn_out,
                   header, body, content_length, is_chunked, body_reads>>

\* An end-of-headers test on the trimmed line
IsBlankLine_Trimmed(line) == trim(line) = <<>>

\* read_response: the line that ends the header block
IsBlankLine(line) == line = CRLF

\* read_response: one iteration of the header loop
ReadHeaderLine ==
    /\ pc = "headers"
    /\ \E end \in {LineEnd(conn_in, rpos)} :
       \E line \in {SubSeq(conn_in, rpos + 1, end)} :
       \E trimmed \in {trim(line)} :
       \E cols \in {Split(trimmed, <<":", " ">>)} :
          /\ rpos' = end
          /\ IF end - rpos = 0
             THEN Fail(Err("unexpected endof")) /\ UNCHANGED header
             ELSE IF IsBlankLine(line)
             THEN pc' = "select" /\ UNCHANGED <<header, result>>
             ELSE IF Len(cols) < 2
             THEN Fail(Err("invalid header value")) /\ UNCHANGED header
             ELSE /\ header' = HeaderAdd(header, to_lowercase(cols[1]), cols[2])
                  /\ UNCHANGED <<pc, result>>
    /\ taken' = Fill(taken, rpos')
    /\ UNCHANGED <<req, hsrc, psrc, built, sent, conn_in, arrivals, conn_out,
                   status, body, content_length, is_chunked, body_reads>>

\* read_response: after the header block, the decision whether and how a body
\* is read
SelectBody ==
    /\ pc = "select"
    /\ LET must_read_body == MustReadBody(req.method)
           tf == HeaderGet(header, to_lowercase(TransferEncodingKey))
           cl == HeaderGet(header, to_lowercase(ContentLengthKey))
       IN IF NoBodyStatus(status)
          THEN /\ Fail(Ok([status |-> status, header |-> header, body |-> None]))
               /\ UNCHANGED is_chunked
          ELSE IF MissingFraming(must_read_body, tf, cl)
          THEN /\ Fail(Err("missing transfer-encoding or content-length"))
               /\ UNCHANGED is_chunked
          ELSE IF must_read_body
          THEN /\ is_chunked' = IsChunked(tf)
               /\ pc' = IF IsChunked(tf) THEN "chunk" ELSE "fixed"
               /\ UNCHANGED result
          ELSE /\ pc' = "finish"
               /\ UNCHANGED <<is_chunked, result>>
    /\ UNCHANGED <<req, hsrc, psrc, built, sent, conn_in, arrivals, conn_out,
                   rpos, taken, status, header, body, content_length,
                   body_reads>>

\* read_response: one iteration of the chunk loop
ReadChunk ==
    /\ pc = "chunk"
    /\ \E end \in {LineEnd(conn_in, rpos)} :
       \E readed \in {end - rpos} :
       \E chunk_size \in {ChunkSize(SubSeq(conn_in, rpos + 1, end))} :
       \E chunk \in {IF IsSome(chunk_size) /\ Unwrap(chunk_size) > 0
                     THEN ReadExact(conn_in, end, Unwrap(chunk_size))
                     ELSE None} :
          /\ content_length' = content_length + readed
          /\ IF readed = 0
             THEN /\ pc' = "finish"
                  /\ rpos' = end
                  /\ body_reads' = body_reads + 1
                  /\ UNCHANGED <<body, result>>
             ELSE IF IsNone(chunk_size)
             THEN /\ Fail(Err("cannot read chunk length"))
                  /\ rpos' = end
                  /\ body_reads' = body_reads + 1
                  /\ UNCHANGED body
             ELSE IF Unwrap(chunk_size) = 0
             THEN /\ pc' = "finish"
                  /\ rpos' = LineEnd(conn_in, end)
                  /\ body_reads' = body_reads + 2
                  /\ UNCHANGED <<body, result>>
             ELSE IF Unwrap(chunk_size) < 0
             THEN /\ Fail(Panic("capacity overflow"))
                  /\ rpos' = end
                  /\ body_reads' = body_reads + 1
                  /\ UNCHANGED body
             ELSE IF IsNone(chunk)
             THEN /\ Fail(Panic("UnexpectedEof"))
                  /\ rpos' = Len(conn_in)
                  /\ body_reads' = body_reads + 2
                  /\ UNCHANGED body
             ELSE /\ body' = body \o Unwrap(chunk)
                  /\ rpos' = LineEnd(conn_in, end + Unwrap(chunk_size))
                  /\ body_reads' = body_reads + 3
                  /\ UNCHANGED <<pc, result>>
    /\ taken' = Fill(taken, rpos')
    /\ UNCHANGED <<req, hsrc, psrc, built, sent, conn_in, arrivals, conn_out,
                   status, header, is_chunked>>

\* read_response: the body of content-length bytes
ReadFixed ==
    /\ pc = "fixed"
    /\ \E value \in {HeaderGet(header, to_lowercase(ContentLengthKey))} :
       \E size \in {IF IsSome(value) THEN ParseUnsigned(Unwrap(value)) ELSE None} :
       \E buf \in {IF IsSome(size) THEN ReadExact(conn_in, rpos, Unwrap(size))
                   ELSE None} :
          IF IsNone(value)
          THEN /\ Fail(Err("not found content-length"))
               /\ UNCHANGED <<content_length, body, rpos, body_reads>>
          ELSE IF IsNone(size)
          THEN /\ Fail(Err("ParseIntError"))
               /\ UNCHANGED <<content_length, body, rpos, body_reads>>
          ELSE IF IsNone(buf)
          THEN /\ Fail(Panic("UnexpectedEof"))
               /\ content_length' = Unwrap(size)
               /\ rpos' = Len(conn_in)
               /\ body_reads' = body_reads + 1
               /\ UNCHANGED body
          ELSE /\ content_length' = Unwrap(size)
               /\ body' = Unwrap(buf)
               /\ rpos' = rpos + Unwrap(size)
               /\ body_reads' = body_reads + 1
               /\ pc' = "finish"
               /\ UNCHANGED result
    /\ taken' = Fill(taken, rpos')
    /\ UNCHANGED <<req, hsrc, psrc, built, sent, conn_in, arrivals, conn_out,
                   status, header, is_chunked>>

\* A response body that is always Some
ResponseBody_AlwaysSome(b) == Some(b)

\* read_response: the body option of the Response
ResponseBody(b) == IF b # <<>> THEN Some(b) ELSE None

\* read_response: the chunked normalisation of the headers and the Response
Finish ==
    /\ pc = "finish"
    /\ header' = IF is_chunked
                 THEN HeaderRemove(
                          HeaderAdd(header, to_lowercase(ContentLengthKey),
                                    to_string(content_length)),
                          to_lowercase(TransferEncodingKey))
                 ELSE header
    /\ Fail(Ok([status |-> status, header |-> header',
                body |-> ResponseBody(body)]))
    /\ UNCHANGED <<req, hsrc, psrc, built, sent, conn_in, arrivals, conn_out,
                   rpos, taken, status, body, content_length, is_chunked,
                   body_reads>>

Next ==
    \/ Execute
    \/ ReadStatusLine
    \/ ReadHeaderLine
    \/ SelectBody
    \/ ReadChunk
    \/ ReadFixed
    \/ Finish

Spec == InitRead /\ [][Next]_vars

----------------------------------------------------------------------------
(* read_response: C1 - C5 and C10, checked under Spec *)

\* The value the peer sent for a header, looked up by its lower-case key
SentValue(m, key) ==
    IF \E i \in DOMAIN m.lines : to_lowercase(m.lines[i][1]) = key
    THEN Some(m.lines[CHOOSE i \in DOMAIN m.lines : to_lowercase(m.lines[i][1]) = key][2])
    ELSE None

SentContentLength(m) == SentValue(m, to_lowercase(ContentLengthKey))
SentTransferEncoding(m) == SentValue(m, to_lowercase(TransferEncodingKey))

\* The header lines the peer sent, as a collection: lower-case keys, key order
SentHeader(m) == InKeyOrder({<<to_lowercase(m.lines[i][1]), m.lines[i][2]>> : i \in DOMAIN m.lines})

\* A body is expected: the method is not HEAD or OPTIONS, the status not 204 or 304
BodyExpected == req.method \notin {"Head", "Options"} /\ sent.status \notin {204, 304}

\* The peer sent content-length: N with N >= 1 and no transfer-encoding:
\* chunked, and at least N bytes after the blank line
FixedLengthCase ==
    /\ BodyExpected
    /\ IsSome(SentContentLength(sent))
    /\ SentTransferEncoding(sent) # Some(Chunked)
    /\ \E n \in 1..Len(sent.body) : Unwrap(SentContentLength(sent)) = to_string(n)

\* C1: in the fixed-length case read_response returns a Response with the
\* status sent, the headers sent and, as its body, exactly the first N bytes
\* after the blank line.
C1_FixedLengthBody ==
    (pc = "done" /\ FixedLengthCase) =>
        LET n == CHOOSE k \in 1..Len(sent.body) :
                    Unwrap(SentContentLength(sent)) = to_string(k)
        IN result = Ok([status |-> sent.status, header |-> SentHeader(sent),
                        body |-> Some(SubSeq(sent.body, 1, n))])

\* A fixed-length body with a line feed in it and a byte left after it was
\* read, from a response that also carries transfer-encoding: gzip.
C1_Witness ==
    /\ pc = "done" /\ FixedLengthCase /\ result.kind = "ok"
    /\ SentTransferEncoding(sent) = Some(Gzip)
    /\ Len(Unwrap(result.resp.body)) < Len(sent.body)
    /\ \E i \in DOMAIN Unwrap(result.resp.body) : Unwrap(result.resp.body)[i] = "\n"

\* The peer sent transfer-encoding: chunked and a well-framed chunked body
ChunkedCase ==
    /\ BodyExpected
    /\ SentTransferEncoding(sent) = Some(Chunked)
    /\ IsSome(sent.chunks)

\* The number of bytes of the message up to and including the line that
\* follows the zero-size chunk
ChunkedEnd == Len(HeadOnWire(sent)) + Len(ChunkedFrame(Unwrap(sent.chunks)))

\* C2: in the chunked case read_response returns a Response whose body is the
\* concatenation of the chunk payloads in stream order (no body when they hold
\* no byte), and reading stops right after the zero-size chunk: no byte that
\* follows it is consumed.
C2_ChunkedBody ==
    (pc = "done" /\ ChunkedCase) =>
        LET payload == Concat(Unwrap(sent.chunks)) IN
        /\ result.kind = "ok"
        /\ result.resp.status = sent.status
        /\ result.resp.body = (IF payload = <<>> THEN None ELSE Some(payload))
        /\ rpos = ChunkedEnd

\* Two different chunks, one with a line feed in its payload and one whose size
\* is written with a hex letter, were reassembled, and a byte follows the
\* zero-size chunk.
C2_Witness ==
    /\ pc = "done" /\ ChunkedCase /\ result.kind = "ok"
    /\ Len(Unwrap(sent.chunks)) = 2
    /\ Unwrap(sent.chunks)[1] # Unwrap(sent.chunks)[2]
    /\ Len(conn_in) > ChunkedEnd

\* C3: for status 204 or 304 read_response returns a Response with the status
\* and headers sent and body None, whatever the method and the framing headers;
\* no read is made after the header block and the call does not fail.
C3_NoBodyStatus ==
    sent.status \in {204, 304} =>
        /\ body_reads = 0
        /\ rpos <= Len(HeadOnWire(sent))
        /\ pc = "done" =>
              result = Ok([status |-> sent.status, header |-> SentHeader(sent),
                           body |-> None])

\* A 304 response with content-length: 1 and a body byte, to a GET, was read.
C3_Witness ==
    /\ pc = "done" /\ sent.status = 304 /\ req.method = "Get"
    /\ SentContentLength(sent) = Some(<<"1">>)
    /\ Len(sent.body) > 0
    /\ result.kind = "ok"

\* C4: for a HEAD or OPTIONS request read_response makes no read after the
\* header block, does not fail, and returns a Response with the status and
\* headers sent, exactly as parsed, and body None.
C4_HeadOptions ==
    req.method \in {"Head", "Options"} =>
        /\ body_reads = 0
        /\ rpos <= Len(HeadOnWire(sent))
        /\ pc = "done" =>
              result = Ok([status |-> sent.status, header |-> SentHeader(sent),
                           body |-> None])

\* A 200 response with transfer-encoding: chunked and content-length, and with
\* body bytes, to an OPTIONS request, was read.
C4_Witness ==
    /\ pc = "done" /\ req.method = "Options" /\ sent.status = 200
    /\ SentTransferEncoding(sent) = Some(Chunked)
    /\ IsSome(SentContentLength(sent))
    /\ Len(sent.body) > 0
    /\ result.kind = "ok"

\* C5: when a body is expected and the header block holds neither
\* content-length nor transfer-encoding, read_response fails with the
\* missing-framing error and returns no Response.
C5_MissingFraming ==
    (pc = "done" /\ BodyExpected
        /\ IsNone(SentContentLength(sent)) /\ IsNone(SentTransferEncoding(sent))) =>
        result = Err("missing transfer-encoding or content-length")

\* A DELETE got a 200 response with another header only, and body bytes.
C5_Witness ==
    /\ pc = "done" /\ req.method = "Delete" /\ sent.status = 200
    /\ Len(sent.lines) = 1
    /\ IsNone(SentContentLength(sent)) /\ IsNone(SentTransferEncoding(sent))
    /\ Len(sent.body) > 0
    /\ result.kind = "err"

\* The peer sent content-length: N, no transfer-encoding: chunked, and fewer
\* than N bytes after the blank line
TruncatedFixedCase ==
    /\ BodyExpected
    /\ IsSome(SentContentLength(sent))
    /\ SentTransferEncoding(sent) # Some(Chunked)
    /\ \E n \in (Len(sent.body) + 1)..(MaxBody + 1) :
           Unwrap(SentContentLength(sent)) = to_string(n)

\* C10: in the truncated fixed-length case the call returns an error value: it
\* returns no Response and it does not abort.
C10_TruncationIsError == (pc = "done" /\ TruncatedFixedCase) => result.kind = "err"

\* What the code does in the truncated fixed-length case: the unwrap of the
\* read_exact result panics.
C10_TruncationPanics ==
    (pc = "done" /\ TruncatedFixedCase) => result = Panic("UnexpectedEof")

----------------------------------------------------------------------------
(* read_response and execute_request: C11, C12, C18 and C19, checked under
   Spec *)

\* C11: after a chunked body is read, the returned headers hold no
\* transfer-encoding entry and hold content-length equal to the decimal number
\* of bytes of the reassembled body, the sum of the chunk sizes.
C11_ChunkedNormalisation ==
    (pc = "done" /\ ChunkedCase) =>
        /\ result.kind = "ok"
        /\ HeaderGet(result.resp.header, to_lowercase(TransferEncodingKey)) = None
        /\ HeaderGet(result.resp.header, to_lowercase(ContentLengthKey))
               = Some(to_string(Len(Concat(Unwrap(sent.chunks)))))

\* DELETE, status 200, nothing after the blank line
DeleteCase == req.method = "Delete" /\ sent.status = 200 /\ sent.body = <<>>

C18_BodyOption ==
    (pc = "done" /\ result.kind = "ok") =>
        /\ IsSome(result.resp.body) => Unwrap(result.resp.body) # <<>>
        /\ result.resp.body = (IF body = <<>> THEN None ELSE Some(body))
        /\ (BodyExpected /\ SentContentLength(sent) = Some(to_string(0))
               /\ IsNone(SentTransferEncoding(sent)))
              => result.resp.body = None
        /\ (ChunkedCase /\ Concat(Unwrap(sent.chunks)) = <<>>)
              => result.resp.body = None
        /\ FixedLengthCase => IsSome(result.resp.body)

C18_Witness ==
    /\ pc = "done"
    /\ result.kind = "ok"
    /\ BodyExpected
    /\ SentContentLength(sent) = Some(to_string(0))
    /\ IsNone(SentTransferEncoding(sent))
    /\ sent.body # <<>>
    /\ result.resp.body = None

\* C19: in every execute_request call the whole request, and nothing else, is
\* written before the first byte is read; nothing is written once reading has
\* started; and a result exists only when the call is over.
C19_WriteThenRead ==
    /\ pc = "call" => (conn_out = <<>> /\ rpos = 0 /\ result = Running)
    /\ pc # "call" => conn_out = build(req)
    /\ rpos > 0 => conn_out = build(req)
    /\ result # Running <=> pc = "done"

C19_Witness ==
    /\ pc = "done"
    /\ result.kind = "ok"
    /\ rpos = Len(conn_in)
    /\ IsSome(req.body)
    /\ conn_out = build(req)

----------------------------------------------------------------------------
(* HttpHeader: C13, checked under BuildSpec *)

\* C13: the header collection lower-cases keys on insertion: every key it
\* holds is lower-case, two inserts whose keys differ only in case leave one
\* entry, and every header line that build emits has a lower-case key.
C13_LowerCaseKeys ==
    /\ IsSome(req.header) =>
          LET h == Unwrap(req.header) IN
          /\ \A i \in DOMAIN h : h[i][1] = to_lowercase(h[i][1])
          /\ \A i, j \in DOMAIN h :
                 to_lowercase(h[i][1]) = to_lowercase(h[j][1]) => i = j
    /\ pc = "built" =>
          \A line \in PairSet(HeaderLinesOf(Unwrap(built))) :
              LET key == Split(line, <<":", " ">>)[1] IN key = to_lowercase(key)

----------------------------------------------------------------------------
(* StreamSpec: read_response on the streams of a peer that is cut off or   *)
(* sends a malformed head.  A message is the tokens of its first line and  *)
(* their separator, its header lines (a <<key, value>>, or a <<text>> with  *)
(* no separator), its body, and `cut`, the number of bytes that arrive     *)
(* before end-of-input.                                                    *)

HttpVersion == <<"H", "T", "T", "P", "/", "1", ".", "1">>
ReasonOK == <<"O", "K">>
ChunkedTitle == <<"C", "h", "u", "n", "k", "e", "d">>
ContentTypeKey == <<"C", "o", "n", "t", "e", "n", "t", "-", "T", "y", "p", "e">>
ApplicationJson ==
    <<"a", "p", "p", "l", "i", "c", "a", "t", "i", "o", "n", "/", "j", "s", "o", "n">>

\* The first lines a peer sends: the tokens, whether the second one is an
\* unsigned integer, and its value then
FirstLines ==
    {[first |-> <<>>, numeric |-> FALSE, status |-> 0],
     [first |-> <<HttpVersion>>, numeric |-> FALSE, status |-> 0],
     [first |-> <<HttpVersion, <<"a", "b", "c">>, ReasonOK>>, numeric |-> FALSE, status |-> 0],
     [first |-> <<HttpVersion, <<"-", "1">>, ReasonOK>>, numeric |-> FALSE, status |-> 0],
     [first |-> <<HttpVersion, <<"2", "x">>>>, numeric |-> FALSE, status |-> 0],
     [first |-> <<HttpVersion, <<"2", "0">>>>, numeric |-> TRUE, status |-> 20],
     [first |-> <<HttpVersion, <<"2", "0", "0">>, ReasonOK>>, numeric |-> TRUE, status |-> 200],
     [first |-> <<HttpVersion, <<"4", "0", "4">>, <<"N", "o", "t">>, <<"F", "o", "u", "n", "d">>>>,
      numeric |-> TRUE, status |-> 404]}

\* The first line of a well-formed response with status st
StatusLineOf(st) == [first |-> <<HttpVersion, to_string(st), ReasonOK>>,
                     numeric |-> TRUE, status |-> st]

\* A header line on the wire
LineOnWire(l) == IF Len(l) = 2 THEN l[1] \o <<":", " ">> \o l[2] ELSE l[1]

\* The first line, without its terminator
FirstLineOnWire(m) == Join(m.first, m.sep)

\* The first line and the header block, with the blank line, as the peer
\* means to send them
StreamHead(m) ==
    FirstLineOnWire(m) \o CRLF
        \o Concat([i \in DOMAIN m.lines |-> LineOnWire(m.lines[i]) \o CRLF])
        \o CRLF

\* What arrives: the first `cut` bytes of the message
StreamOnWire(m) == SubSeq(StreamHead(m) \o m.body, 1, m.cut)

StreamMessage(f, sep, ls, chunks, bytes, cut) ==
    [first |-> f.first, numeric |-> f.numeric, status |-> f.status, sep |-> sep,
     lines |-> ls, chunks |-> chunks, body |-> bytes, cut |-> cut]

\* Messages with every kind of first line, whole, cut after the first line's
\* last token, or absent
FirstLineMessages ==
    {StreamMessage(f, sep, ls, None, <<"a">>, 0) :
        f \in FirstLines, sep \in {<<" ">>, <<" ", " ">>},
        ls \in {<<>>, <<<<ContentLengthKey, <<"1">>>>>>}}

\* Well-formed messages, to be cut at every length
WholeMessages ==
    LET te == <<<<TransferEncodingKey, Chunked>>>>
        cl == <<<<ContentLengthKey, <<"2">>>>, <<<<"E", "T", "a", "g">>, <<"x">>>>>>
        one == <<<<"\n", "a">>>>
        two == <<<<"\n", "a">>, <<"b", "b", "b", "b", "b", "b", "b", "b", "b", "b", "b">>>>
    IN {StreamMessage(StatusLineOf(st), <<" ">>, b[1], b[2], b[3], 0) :
           st \in Statuses,
           b \in {<<te, Some(one), ChunkedFrame(one)>>,
                  <<te, Some(two), ChunkedFrame(two)>>,
                  <<cl, None, <<"a", "\n">>>>}}

\* Whole messages whose header block holds a transfer-encoding value in
\* another case, a value with the separator in it, or a line without one
HeaderMessages ==
    LET one == <<<<"\n", "a">>>>
        cl1 == <<ContentLengthKey, <<"1">>>>
        cl2 == <<ContentLengthKey, <<"2">>>>
    IN {StreamMessage(StatusLineOf(200), <<" ">>, b[1], b[2], b[3], 0) :
           b \in {<<<<<<TransferEncodingKey, ChunkedTitle>>>>, Some(one), ChunkedFrame(one)>>,
                  <<<<cl2, <<TransferEncodingKey, ChunkedTitle>>>>, Some(one), ChunkedFrame(one)>>,
                  <<<<<<TransferEncodingKey, Gzip>>, cl1>>, None, <<"a">>>>,
                  <<<<<<ContentTypeKey, ApplicationJson>>, cl1>>, None, <<"a">>>>,
                  <<<<<<<<"X">>, <<"a", ":", " ", "b">>>>, cl1>>, None, <<"a">>>>,
                  <<<<cl1, <<<<"X">>, <<"a", ":", " ", "b", ":", " ", "c">>>>>>, None, <<"a">>>>,
                  <<<<<<<<"F", "o", "o">>>>, cl1>>, None, <<"a">>>>}}

\* The chunk-size lines of a peer that sends a negative size, or no size
NegativeSizes == {<<"-", "1">>, <<"-", "a">>}
BadSizes == NegativeSizes \cup {<<"g">>}

\* Whole messages with transfer-encoding: chunked whose first chunk-size line
\* is negative or no number
ChunkSizeMessages ==
    {StreamMessage(StatusLineOf(200), <<" ">>, <<<<TransferEncodingKey, Chunked>>>>, None,
                   z \o CRLF \o <<"a">> \o CRLF \o <<"0">> \o CRLF \o CRLF, 0) :
        z \in BadSizes}

\* The streams: the cuts of each message
StreamMessages ==
    LET whole(m) == Len(StreamHead(m) \o m.body) IN
    UNION {{[m EXCEPT !.cut = c] : c \in {0, Len(FirstLineOnWire(m)), whole(m)}} :
              m \in FirstLineMessages}
    \cup UNION {{[m EXCEPT !.cut = c] : c \in 0..whole(m)} : m \in WholeMessages}
    \cup {[m EXCEPT !.cut = whole(m)] : m \in HeaderMessages \cup ChunkSizeMessages}

InitStream ==
    /\ \E m \in HttpMethod, url \in Urls : req = RequestFor(m, url, JsonTrue)
    /\ hsrc = <<>>
    /\ psrc = <<>>
    /\ built = None
    /\ pc = "call"
    /\ sent \in StreamMessages
    /\ conn_in = StreamOnWire(sent)
    /\ arrivals = {Len(conn_in)}
    /\ conn_out = <<>>
    /\ rpos = 0
    /\ taken = 0
    /\ status = 0
    /\ header = HeaderNew
    /\ body = <<>>
    /\ content_length = 0
    /\ is_chunked = FALSE
    /\ body_reads = 0
    /\ result = Running

StreamSpec == InitStream /\ [][Next]_vars

----------------------------------------------------------------------------
(* read_response: C14 - C17 and C20, checked under StreamSpec *)

\* The number of bytes of the first line and the header block
HeadEnd == Len(StreamHead(sent))

\* The whole message arrives
Uncut == sent.cut = Len(StreamHead(sent) \o sent.body)

\* A body is expected, the peer sent transfer-encoding: chunked, the head
\* arrives whole, and the stream ends before the first byte of the zero-size
\* chunk
ChunkedCutCase ==
    /\ BodyExpected
    /\ SentTransferEncoding(sent) = Some(Chunked)
    /\ IsSome(sent.chunks)
    /\ sent.cut >= HeadEnd
    /\ sent.cut <= HeadEnd
          + Len(Concat([i \in DOMAIN Unwrap(sent.chunks) |->
                           ChunkFrame(Unwrap(sent.chunks)[i])]))

\* C14: when the stream of a chunked body ends before the zero-size chunk, at
\* a chunk-size line or inside a payload, the call ends with an error returned
\* to the caller, never with a Response of the chunks read so far.
C14_ChunkedTruncationIsError ==
    (pc = "done" /\ ChunkedCutCase) => result.kind = "err"

\* The keys that the normalisation of a chunked response rewrites
FramingKeys == {to_lowercase(ContentLengthKey), to_lowercase(TransferEncodingKey)}

\* C15: of a whole message, a header line with no ": " fails the call with
\* an error; otherwise every header line (the framing lines, which a chunked
\* read rewrites, aside) is held under its lower-cased key with, as its value,
\* all that follows the first ": " of the line.
C15_HeaderLine ==
    (pc = "done" /\ Uncut /\ sent.numeric) =>
        IF \E i \in DOMAIN sent.lines : Len(sent.lines[i]) = 1
        THEN result.kind = "err"
        ELSE result.kind = "ok" =>
                 \A i \in DOMAIN sent.lines :
                     to_lowercase(sent.lines[i][1]) \notin FramingKeys =>
                         HeaderGet(result.resp.header, to_lowercase(sent.lines[i][1]))
                             = Some(sent.lines[i][2])

\* The stream ends after the first line and before the "\n" of the blank line
HeadCutCase ==
    /\ sent.cut > 0
    /\ sent.cut >= Len(FirstLineOnWire(sent))
    /\ sent.cut < HeadEnd

\* C16: when the stream ends after the status line and before the blank line,
\* read_response never gets past the header loop and ends with an error and no
\* Response, whatever the status and the method.
C16_TruncatedHead ==
    HeadCutCase =>
        /\ pc \in {"call", "status", "headers", "done"}
        /\ pc = "done" => (result.kind = "err" /\ result.resp = NoResponse)

C16_Witness ==
    /\ pc = "done"
    /\ HeadCutCase
    /\ sent.status = 204
    /\ req.method = "Head"
    /\ header # HeaderNew
    /\ result = Err("unexpected endof")

\* The tokens of the first line that arrives, when it arrives whole or not at
\* all
FirstLineArrives == sent.cut = 0 \/ sent.cut >= Len(FirstLineOnWire(sent))
TokensOnWire == IF sent.cut = 0 THEN <<>> ELSE sent.first

\* C17: once the first line is read, the status is the value of its second
\* token when that is an unsigned integer, and so is the status of a Response
\* returned; with no first line, fewer than two tokens or another second token
\* the call ends with an error, no header line read.
C17_StatusLine ==
    (pc \notin {"call", "status"} /\ FirstLineArrives) =>
        IF Len(TokensOnWire) >= 2 /\ sent.numeric
        THEN /\ status = sent.status
             /\ result.kind = "ok" => result.resp.status = sent.status
        ELSE /\ pc = "done"
             /\ result.kind = "err"
             /\ header = HeaderNew
             /\ rpos <= Len(FirstLineOnWire(sent)) + Len(CRLF)

C17_Witness ==
    /\ pc = "done"
    /\ sent.sep = <<" ", " ">>
    /\ Len(sent.first) = 4
    /\ result.kind = "ok"
    /\ result.resp.status = 404

\* C20: the body is read in chunked mode if and only if the lower-cased value
\* of the transfer-encoding line sent equals "chunked"; otherwise in
\* fixed-length mode.
C20_ChunkedIffLowerCased ==
    pc \in {"chunk", "fixed"} =>
        (pc = "chunk" <=>
            (/\ IsSome(SentTransferEncoding(sent))
             /\ to_lowercase(Unwrap(SentTransferEncoding(sent))) = Chunked))

----------------------------------------------------------------------------
(* read_response: C22, checked under StreamSpec *)

\* A body is expected and the first chunk-size line of a whole chunked
\* message is a negative number
NegativeSizeCase ==
    /\ BodyExpected
    /\ SentTransferEncoding(sent) = Some(Chunked)
    /\ Uncut
    /\ \E z \in NegativeSizes :
           SubSeq(sent.body, 1, Len(z) + Len(CRLF)) = z \o CRLF

\* C22: a chunk-size line that parses as a negative number is rejected with
\* an error returned to the caller: the size is never turned into an unsigned
\* length.
C22_NegativeSizeRejected ==
    (pc = "done" /\ NegativeSizeCase) => result.kind = "err"

----------------------------------------------------------------------------
(* ReuseSpec: execute_request called again on the same HttpClient.  The    *)
(* peer sends two responses, one after the other; `sent` is the first one  *)
(* and sent.next the one that follows it.  The bytes arrive in one piece,  *)
(* or in two, split at any position.                                       *)

MaxCalls == 2

\* The well-formed responses to a request of method m: a head alone when no
\* body is read for m, else a head alone (204) or a head and its framed body
ResponsesTo(m) ==
    LET one == <<<<"\n", "a">>>>
        head204 == [status |-> 204, lines |-> <<>>, chunks |-> None, body |-> <<>>]
        head200 == [status |-> 200, lines |-> <<<<ContentLengthKey, <<"2">>>>>>,
                    chunks |-> None, body |-> <<>>]
    IN IF MustReadBody(m)
       THEN {head204,
             [head200 EXCEPT !.body = <<"a", "\n">>],
             [status |-> 200, lines |-> <<<<TransferEncodingKey, Chunked>>>>,
              chunks |-> Some(one), body |-> ChunkedFrame(one)]}
       ELSE {head204, head200}

\* The number of execute_request calls made so far
Calls == Len(conn_out) \div Len(build(req))

InitReuse ==
    /\ \E m \in HttpMethod, url \in Urls :
          /\ req = RequestFor(m, url, JsonTrue)
          /\ \E first \in ResponsesTo(m), second \in ResponsesTo(m) :
                sent = [status |-> first.status, lines |-> first.lines,
                        chunks |-> first.chunks, body |-> first.body,
                        next |-> second]
    /\ hsrc = <<>>
    /\ psrc = <<>>
    /\ built = None
    /\ pc = "call"
    /\ conn_in = OnWire(sent) \o OnWire(sent.next)
    /\ \E e \in 1..Len(conn_in) : arrivals = {e, Len(conn_in)}
    /\ conn_out = <<>>
    /\ rpos = 0
    /\ taken = 0
    /\ status = 0
    /\ header = HeaderNew
    /\ body = <<>>
    /\ content_length = 0
    /\ is_chunked = FALSE
    /\ body_reads = 0
    /\ result = Running

\* execute_request returns Ok or Err and the caller calls it again: the
\* BufReader of the call that returned is dropped with the bytes it took and
\* did not hand out, and the next call's BufReader reads the transport from
\* where it is.
CallAgain ==
    /\ pc = "done"
    /\ result.kind \in {"ok", "err"}
    /\ Calls < MaxCalls
    /\ pc' = "call"
    /\ rpos' = taken
    /\ status' = 0
    /\ header' = HeaderNew
    /\ body' = <<>>
    /\ content_length' = 0
    /\ is_chunked' = FALSE
    /\ body_reads' = 0
    /\ result' = Running
    /\ UNCHANGED <<req, hsrc, psrc, built, sent, conn_in, arrivals, conn_out, taken>>

NextReuse ==
    \/ Next
    \/ CallAgain

ReuseSpec == InitReuse /\ [][NextReuse]_vars

----------------------------------------------------------------------------
(* execute_request: C21, checked under ReuseSpec *)

\* The number of bytes of the first response
FirstMessageEnd == Len(OnWire(sent))

\* C21: when the first call returns a Response, the bytes taken from the
\* transport are exactly those of the first response; the second call starts
\* reading at the first byte of the next response and returns it.
C21_ExactConsumption ==
    /\ (Calls = 1 /\ pc = "done" /\ result.kind = "ok") =>
           (rpos = FirstMessageEnd /\ taken = FirstMessageEnd)
    /\ (Calls = 2 /\ pc = "status") => rpos = FirstMessageEnd
    /\ (Calls = 2 /\ pc = "done") =>
           (result.kind = "ok" /\ result.resp.status = sent.next.status)

----------------------------------------------------------------------------
(* read_response: C23, checked under FairStreamSpec *)

\* execute_request is straight-line code on one thread and every read of a
\* stream that reaches end-of-input returns: a step that can be taken is
\* taken.
FairStreamSpec == InitStream /\ [][Next]_vars /\ WF_vars(Next)

\* C23: read_response terminates on every stream, with a Response, an error
\* or an abort; and every iteration of the header loop or of the chunk loop
\* that does not leave the loop consumes at least one byte.
C23_Terminates ==
    /\ <>(pc = "done")
    /\ [][(pc \in {"headers", "chunk"} /\ pc' = pc) => rpos' > rpos]_vars

C23_Witness ==
    /\ pc = "done"
    /\ ChunkedCutCase
    /\ sent.cut > HeadEnd
    /\ result.kind = "ok"
    /\ rpos = Len(conn_in)

====
